---- MODULE Spec2Model ----
(***************************************************************************)
(* jor1k worker: the RingBuffer circular queue and the UARTDev 8250-class  *)
(* serial port that uses it as its receive FIFO                            *)
(* (src/js/worker/ringbuffer.js).                                          *)
(*                                                                         *)
(* The file defines RingBuffer twice; the second definition (lines         *)
(* 430-571) is the one in force, since each later prototype assignment     *)
(* replaces the earlier one.  The model follows the second definition.     *)
(*                                                                         *)
(* JavaScript values: a function that returns nothing yields undefined,    *)
(* written <<>> here; a returned number v is written <<v>>.  An Int32Array *)
(* of n slots is a sequence of length n, slot i of the code being element  *)
(* i+1 of the sequence.                                                    *)
(***************************************************************************)
EXTENDS Integers, Sequences, FiniteSets, TLC

\* ------------------------------------------------------------ bounds
\* Longest queue the test harness builds (257 elements force capacity 512,
\* the smallest capacity from which the queue can shrink).
MaxLen == 257
\* How far begin may travel from slot 0 (either way) between reallocations.
MaxOff == 2
\* Number of shrink reallocations explored (caps _shrink_count).
MaxShrinks == 1
\* Values stored in the queue by the harness are 1..NumVals.
NumVals == 3
\* Bytes the serial line delivers to the port in one run.
MaxRecv == 2

\* ------------------------------------------------------------ helpers
undefined == <<>>

Min(a, b) == IF a < b THEN a ELSE b

\* JavaScript's & and | on non-negative integers.
RECURSIVE BitAnd(_, _)
BitAnd(a, b) ==
  IF a = 0 \/ b = 0 THEN 0
  ELSE (a % 2) * (b % 2) + 2 * BitAnd(a \div 2, b \div 2)

RECURSIVE BitOr(_, _)
BitOr(a, b) ==
  IF a = 0 THEN b
  ELSE IF b = 0 THEN a
  ELSE (IF a % 2 = 1 \/ b % 2 = 1 THEN 1 ELSE 0) + 2 * BitOr(a \div 2, b \div 2)

\* a & ~b
BitClear(a, b) == a - BitAnd(a, b)

\* 1 << n
Shl1(n) == 2 ^ n

\* ------------------------------------------------------------ RingBuffer
\* new Int32Array(size): size slots, all zero.
_new_array(size) == [i \in 1..size |-> 0]

\* RingBuffer.prototype.reset, as run by the constructor.
RingBufferNew ==
  LET a == _new_array(16) IN
  [ begin |-> 0, end |-> 0, length |-> 0,
    _shrink_count |-> 0, min_capacity |-> 128,
    array |-> a, empty_value |-> a[1] ]

\* _realloc that copies from slot 0 of the old array instead of from begin.
_realloc_from_zero(rb, size) ==
  LET len == rb.length IN
  IF len > size THEN rb
  ELSE [rb EXCEPT !.array = [i \in 1..size |-> IF i - 1 < len THEN rb.array[i] ELSE 0],
                  !.begin = 0, !.end = len]

\* _realloc that copies in logical order but leaves begin where it was.
_realloc_keeps_begin(rb, size) ==
  LET len == rb.length IN
  IF len > size THEN rb
  ELSE
    LET old  == rb.array
        j0   == rb.begin
        wrap == Min(len, Len(old) - j0)
        new  == [i \in 1..size |->
                   IF i - 1 < wrap THEN old[j0 + i]
                   ELSE IF i - 1 < len THEN old[i - wrap]
                   ELSE 0]
    IN [rb EXCEPT !.array = new, !.end = len]

_realloc(rb, size) ==
  LET len == rb.length IN
  IF len > size THEN rb
  ELSE
    LET old  == rb.array
        j0   == rb.begin
        wrap == Min(len, Len(old) - j0)
        new  == [i \in 1..size |->
                   IF i - 1 < wrap THEN old[j0 + i]
                   ELSE IF i - 1 < len THEN old[i - wrap]
                   ELSE 0]
    IN [rb EXCEPT !.array = new, !.begin = 0, !.end = len]

_check_grow(rb) ==
  IF rb.length = Len(rb.array) THEN _realloc(rb, rb.length * 2) ELSE rb

\* _check_shrink that halves the capacity instead of quartering it.
_check_shrink_halves(rb) ==
  LET candidate_size == Len(rb.array) \div 2 IN
  IF rb.length <= (candidate_size \div 2) /\ candidate_size >= rb.min_capacity
  THEN _realloc([rb EXCEPT !._shrink_count = @ + 1], candidate_size)
  ELSE rb

\* _check_shrink that shrinks as soon as the elements fit the smaller array.
_check_shrink_when_fits(rb) ==
  LET candidate_size == Len(rb.array) \div 4 IN
  IF rb.length <= candidate_size /\ candidate_size >= rb.min_capacity
  THEN _realloc([rb EXCEPT !._shrink_count = @ + 1], candidate_size)
  ELSE rb

_check_shrink(rb) ==
  LET candidate_size == Len(rb.array) \div 4 IN
  IF rb.length <= (candidate_size \div 2) /\ candidate_size >= rb.min_capacity
  THEN _realloc([rb EXCEPT !._shrink_count = @ + 1], candidate_size)
  ELSE rb

get(rb, index) == rb.array[((rb.begin + index) % Len(rb.array)) + 1]

\* push, unshift, pop and shift yield [rb |-> the queue afterwards,
\* ret |-> the returned value].
push(rb, value) ==
  LET g == _check_grow(rb)
      n == Len(g.array)
  IN [ rb  |-> [g EXCEPT !.array[g.end + 1] = value,
                         !.end = (g.end + 1) % n,
                         !.length = g.length + 1],
       ret |-> <<g.length + 1>> ]

unshift(rb, value) ==
  LET g == _check_grow(rb)
      n == Len(g.array)
      b == (g.begin + n - 1) % n
  IN [ rb  |-> [g EXCEPT !.begin = b,
                         !.array[b + 1] = value,
                         !.length = g.length + 1],
       ret |-> <<g.length + 1>> ]

\* pop that leaves the removed value in its slot (as the file's first
\* definition of pop does).
pop_leaves_value(rb) ==
  IF rb.length = 0 THEN [rb |-> rb, ret |-> undefined]
  ELSE
    LET s == _check_shrink(rb)
        n == Len(s.array)
        e == (s.end + n - 1) % n
    IN [ rb  |-> [s EXCEPT !.length = s.length - 1, !.end = e],
         ret |-> <<s.array[e + 1]>> ]

pop(rb) ==
  IF rb.length = 0 THEN [rb |-> rb, ret |-> undefined]
  ELSE
    LET s == _check_shrink(rb)
        n == Len(s.array)
        e == (s.end + n - 1) % n
    IN [ rb  |-> [s EXCEPT !.length = s.length - 1,
                           !.end = e,
                           !.array[e + 1] = s.empty_value],
         ret |-> <<s.array[e + 1]>> ]

\* shift without the test for an empty queue.
shift_unguarded(rb) ==
  LET s == _check_shrink(rb)
      n == Len(s.array)
  IN [ rb  |-> [s EXCEPT !.length = s.length - 1,
                         !.array[s.begin + 1] = s.empty_value,
                         !.begin = (s.begin + 1) % n],
       ret |-> <<s.array[s.begin + 1]>> ]

shift(rb) ==
  IF rb.length = 0 THEN [rb |-> rb, ret |-> undefined]
  ELSE
    LET s == _check_shrink(rb)
        n == Len(s.array)
    IN [ rb  |-> [s EXCEPT !.length = s.length - 1,
                           !.array[s.begin + 1] = s.empty_value,
                           !.begin = (s.begin + 1) % n],
         ret |-> <<s.array[s.begin + 1]>> ]


\* ------------------------------------------------------------ UART
UART_LSR_DATA_READY == 1
UART_LSR_FIFO_EMPTY == 32
UART_LSR_TRANSMITTER_EMPTY == 64

UART_IER_THRI == 2
UART_IER_RDI == 1

UART_IIR_MSI == 0
UART_IIR_NO_INT == 1
UART_IIR_THRI == 2
UART_IIR_RDI == 4
UART_IIR_RLSI == 6
UART_IIR_CTI == 12

UART_LCR_DLAB == 128

UART_DLL == 0
UART_DLH == 1
UART_IER == 1
UART_IIR == 2
UART_FCR == 2
UART_LCR == 3
UART_MCR == 4
UART_LSR == 5
UART_MSR == 6

\* The operations below work on m = [u |-> the UARTDev object,
\* calls |-> the calls made so far by the running operation]: the calls to
\* the interrupt device (intdev), to the output device (odev) and to abort,
\* and the entries into ClearInterrupt and NextInterrupt.
Call(m, c) == [m EXCEPT !.calls = Append(@, c)]

\* Reset that also replaces the receive fifo by a new one.
Reset_new_fifo(u) ==
  [u EXCEPT !.LCR = 3,
            !.LSR = BitOr(UART_LSR_TRANSMITTER_EMPTY, UART_LSR_FIFO_EMPTY),
            !.MSR = 0,
            !.IIR = UART_IIR_NO_INT,
            !.ints = 0,
            !.IER = 0,
            !.DLL = 0,
            !.DLH = 0,
            !.FCR = 0,
            !.MCR = 0,
            !.input = 0,
            !.fifo = RingBufferNew]

\* UARTDev.prototype.Reset: every register, not the fifo.
Reset(u) ==
  [u EXCEPT !.LCR = 3,
            !.LSR = BitOr(UART_LSR_TRANSMITTER_EMPTY, UART_LSR_FIFO_EMPTY),
            !.MSR = 0,
            !.IIR = UART_IIR_NO_INT,
            !.ints = 0,
            !.IER = 0,
            !.DLL = 0,
            !.DLH = 0,
            !.FCR = 0,
            !.MCR = 0,
            !.input = 0]

\* The constructor: Reset(), then a new RingBuffer as the receive fifo.
UARTDevNew ==
  [ Reset([LCR |-> 0, LSR |-> 0, MSR |-> 0, IIR |-> 0, ints |-> 0, IER |-> 0,
           DLL |-> 0, DLH |-> 0, FCR |-> 0, MCR |-> 0, input |-> 0,
           fifo |-> RingBufferNew])
    EXCEPT !.fifo = RingBufferNew ]

\* ThrowCTI that reports the cause whether or not IER enables it.
ThrowCTI_unmasked(m) ==
  LET m1 == [m EXCEPT !.u.ints = BitOr(@, Shl1(UART_IIR_CTI))] IN
  IF m1.u.IIR # UART_IIR_RLSI /\ m1.u.IIR # UART_IIR_RDI
  THEN Call([m1 EXCEPT !.u.IIR = UART_IIR_CTI],
            [fn |-> "intdev.RaiseInterrupt", arg |-> 2])
  ELSE m1

ThrowCTI(m) ==
  LET m1 == [m EXCEPT !.u.ints = BitOr(@, Shl1(UART_IIR_CTI))] IN
  IF BitAnd(m1.u.IER, UART_IER_RDI) = 0 THEN m1
  ELSE IF m1.u.IIR # UART_IIR_RLSI /\ m1.u.IIR # UART_IIR_RDI
       THEN Call([m1 EXCEPT !.u.IIR = UART_IIR_CTI],
                 [fn |-> "intdev.RaiseInterrupt", arg |-> 2])
       ELSE m1

\* ThrowTHRI that reports THRI whatever IIR reports.
ThrowTHRI_displaces(m) ==
  LET m1 == [m EXCEPT !.u.ints = BitOr(@, Shl1(UART_IIR_THRI))] IN
  IF BitAnd(m1.u.IER, UART_IER_THRI) = 0 THEN m1
  ELSE Call([m1 EXCEPT !.u.IIR = UART_IIR_THRI],
            [fn |-> "intdev.RaiseInterrupt", arg |-> 2])

ThrowTHRI(m) ==
  LET m1 == [m EXCEPT !.u.ints = BitOr(@, Shl1(UART_IIR_THRI))] IN
  IF BitAnd(m1.u.IER, UART_IER_THRI) = 0 THEN m1
  ELSE IF \/ BitAnd(m1.u.IIR, UART_IIR_NO_INT) # 0
          \/ m1.u.IIR = UART_IIR_MSI
          \/ m1.u.IIR = UART_IIR_THRI
       THEN Call([m1 EXCEPT !.u.IIR = UART_IIR_THRI],
                 [fn |-> "intdev.RaiseInterrupt", arg |-> 2])
       ELSE m1

NextInterrupt(m) ==
  LET m0 == Call(m, [fn |-> "NextInterrupt"]) IN
  IF BitAnd(m0.u.ints, Shl1(UART_IIR_CTI)) # 0 /\ BitAnd(m0.u.IER, UART_IER_RDI) # 0
  THEN ThrowCTI(m0)
  ELSE IF BitAnd(m0.u.ints, Shl1(UART_IIR_THRI)) # 0 /\ BitAnd(m0.u.IER, UART_IER_THRI) # 0
  THEN ThrowTHRI(m0)
  ELSE Call([m0 EXCEPT !.u.IIR = UART_IIR_NO_INT],
            [fn |-> "intdev.ClearInterrupt", arg |-> 2])

\* The entry logged for a call of ClearInterrupt: the line acknowledged, the
\* IIR on entry, and ints and IIR once the function's own two assignments
\* are done.
ClearInterrupt(m, line) ==
  LET u1 == [m.u EXCEPT !.ints = BitClear(@, Shl1(line)),
                        !.IIR = UART_IIR_NO_INT]
      m1 == Call([m EXCEPT !.u = u1],
                 [fn |-> "ClearInterrupt", line |-> line, before |-> m.u.IIR,
                  ints |-> u1.ints, IIR |-> u1.IIR])
  IN IF line # m1.u.IIR THEN m1 ELSE NextInterrupt(m1)

\* ReceiveChar that forgets to set Data-Ready.
ReceiveChar_no_ready(m, x) ==
  ThrowCTI([m EXCEPT !.u.fifo = push(@, x).rb])

ReceiveChar(m, x) ==
  LET m1 == [m EXCEPT !.u.fifo = push(@, x).rb]
      m2 == [m1 EXCEPT !.u.LSR = BitOr(@, UART_LSR_DATA_READY)]
  IN ThrowCTI(m2)

Dlab(u) == BitAnd(u.LCR, UART_LCR_DLAB) # 0

\* abort() does not return: the operation ends there, with no value.
Abort(m) == [m |-> Call(m, [fn |-> "abort"]), ret |-> undefined]

\* ReadRBR that takes the newest byte (pop) instead of the oldest.
ReadRBR_newest(m) ==
  LET m1 == [m EXCEPT !.u.input = 0]
      m2 == ClearInterrupt(m1, UART_IIR_RDI)
      m3 == ClearInterrupt(m2, UART_IIR_CTI)
      fifo_len == m3.u.fifo.length
      s  == pop(m3.u.fifo)
      m4 == IF fifo_len >= 1 THEN [m3 EXCEPT !.u.fifo = s.rb] ELSE m3
      ret == IF fifo_len >= 1 THEN s.ret ELSE <<33>>
      m5 == IF fifo_len > 1
            THEN ThrowCTI([m4 EXCEPT !.u.LSR = BitOr(@, UART_LSR_DATA_READY)])
            ELSE [m4 EXCEPT !.u.LSR = BitClear(@, UART_LSR_DATA_READY)]
  IN [m |-> m5, ret |-> ret]

\* ReadRBR that does not signal the character timeout again when bytes remain.
ReadRBR_no_resignal(m) ==
  LET m1 == [m EXCEPT !.u.input = 0]
      m2 == ClearInterrupt(m1, UART_IIR_RDI)
      m3 == ClearInterrupt(m2, UART_IIR_CTI)
      fifo_len == m3.u.fifo.length
      s  == shift(m3.u.fifo)
      m4 == IF fifo_len >= 1 THEN [m3 EXCEPT !.u.fifo = s.rb] ELSE m3
      ret == IF fifo_len >= 1 THEN s.ret ELSE <<33>>
      m5 == IF fifo_len > 1
            THEN [m4 EXCEPT !.u.LSR = BitOr(@, UART_LSR_DATA_READY)]
            ELSE [m4 EXCEPT !.u.LSR = BitClear(@, UART_LSR_DATA_READY)]
  IN [m |-> m5, ret |-> ret]

\* case 0 of ReadReg8: the receive buffer.
ReadRBR(m) ==
  LET m1 == [m EXCEPT !.u.input = 0]
      m2 == ClearInterrupt(m1, UART_IIR_RDI)
      m3 == ClearInterrupt(m2, UART_IIR_CTI)
      fifo_len == m3.u.fifo.length
      s  == shift(m3.u.fifo)
      m4 == IF fifo_len >= 1 THEN [m3 EXCEPT !.u.fifo = s.rb] ELSE m3
      ret == IF fifo_len >= 1 THEN s.ret ELSE <<33>>
      m5 == IF fifo_len > 1
            THEN ThrowCTI([m4 EXCEPT !.u.LSR = BitOr(@, UART_LSR_DATA_READY)])
            ELSE [m4 EXCEPT !.u.LSR = BitClear(@, UART_LSR_DATA_READY)]
  IN [m |-> m5, ret |-> ret]

\* ReadIIR that does not acknowledge Transmit-Holding-Empty.
ReadIIR_no_ack(m) == [m |-> m, ret |-> <<BitOr(BitAnd(m.u.IIR, 15), 192)>>]

\* case UART_IIR of ReadReg8.
ReadIIR(m) ==
  LET ret == BitOr(BitAnd(m.u.IIR, 15), 192)
      m1 == IF m.u.IIR = UART_IIR_THRI THEN ClearInterrupt(m, UART_IIR_THRI) ELSE m
  IN [m |-> m1, ret |-> <<ret>>]

\* ReadReg8 without the divisor-latch branch.
ReadReg8_no_dlab(m, addr) ==
  CASE addr = 0 -> ReadRBR(m)
    [] addr = UART_IER -> [m |-> m, ret |-> <<BitAnd(m.u.IER, 15)>>]
    [] addr = UART_MSR -> [m |-> m, ret |-> <<m.u.MSR>>]
    [] addr = UART_IIR -> ReadIIR(m)
    [] addr = UART_LCR -> [m |-> m, ret |-> <<m.u.LCR>>]
    [] addr = UART_LSR -> [m |-> m, ret |-> <<m.u.LSR>>]
    [] OTHER -> Abort(m)

\* ReadReg8 that also answers a read of address 4 (MCR).
ReadReg8_reads_mcr(m, addr) ==
  IF Dlab(m.u) /\ addr = UART_DLL THEN [m |-> m, ret |-> <<m.u.DLL>>]
  ELSE IF Dlab(m.u) /\ addr = UART_DLH THEN [m |-> m, ret |-> <<m.u.DLH>>]
  ELSE CASE addr = 0 -> ReadRBR(m)
         [] addr = UART_IER -> [m |-> m, ret |-> <<BitAnd(m.u.IER, 15)>>]
         [] addr = UART_MSR -> [m |-> m, ret |-> <<m.u.MSR>>]
         [] addr = UART_IIR -> ReadIIR(m)
         [] addr = UART_LCR -> [m |-> m, ret |-> <<m.u.LCR>>]
         [] addr = UART_MCR -> [m |-> m, ret |-> <<m.u.MCR>>]
         [] addr = UART_LSR -> [m |-> m, ret |-> <<m.u.LSR>>]
         [] OTHER -> Abort(m)

ReadReg8(m, addr) ==
  IF Dlab(m.u) /\ addr = UART_DLL THEN [m |-> m, ret |-> <<m.u.DLL>>]
  ELSE IF Dlab(m.u) /\ addr = UART_DLH THEN [m |-> m, ret |-> <<m.u.DLH>>]
  ELSE CASE addr = 0 -> ReadRBR(m)
         [] addr = UART_IER -> [m |-> m, ret |-> <<BitAnd(m.u.IER, 15)>>]
         [] addr = UART_MSR -> [m |-> m, ret |-> <<m.u.MSR>>]
         [] addr = UART_IIR -> ReadIIR(m)
         [] addr = UART_LCR -> [m |-> m, ret |-> <<m.u.LCR>>]
         [] addr = UART_LSR -> [m |-> m, ret |-> <<m.u.LSR>>]
         [] OTHER -> Abort(m)

\* case 0 of WriteReg8: transmit.
WriteTHR(m, x) ==
  LET m1 == [m EXCEPT !.u.LSR = BitClear(@, UART_LSR_FIFO_EMPTY)]
      m2 == Call(m1, [fn |-> "odev.PutChar", arg |-> x])
      m3 == [m2 EXCEPT !.u.LSR = BitOr(@, UART_LSR_FIFO_EMPTY)]
  IN ThrowTHRI(m3)

\* case UART_IER that stores the enables without calling NextInterrupt.
WriteIER_no_rearbitrate(m, x) == [m EXCEPT !.u.IER = BitAnd(x, 15)]

\* case UART_IER of WriteReg8.
WriteIER(m, x) == NextInterrupt([m EXCEPT !.u.IER = BitAnd(x, 15)])

\* WriteReg8 without x &= 0xFF.
WriteReg8_no_mask(m, addr, x0) ==
  IF Dlab(m.u) /\ addr = UART_DLL THEN [m EXCEPT !.u.DLL = x0]
  ELSE IF Dlab(m.u) /\ addr = UART_DLH THEN [m EXCEPT !.u.DLH = x0]
  ELSE CASE addr = 0 -> WriteTHR(m, x0)
         [] addr = UART_IER -> WriteIER(m, x0)
         [] addr = UART_FCR -> [m EXCEPT !.u.FCR = x0]
         [] addr = UART_LCR -> [m EXCEPT !.u.LCR = x0]
         [] addr = UART_MCR -> [m EXCEPT !.u.MCR = x0]
         [] OTHER -> Abort(m).m

\* WriteReg8 returns nothing; it yields the machine afterwards.
WriteReg8(m, addr, x0) ==
  LET x == BitAnd(x0, 255) IN
  IF Dlab(m.u) /\ addr = UART_DLL THEN [m EXCEPT !.u.DLL = x]
  ELSE IF Dlab(m.u) /\ addr = UART_DLH THEN [m EXCEPT !.u.DLH = x]
  ELSE CASE addr = 0 -> WriteTHR(m, x)
         [] addr = UART_IER -> WriteIER(m, x)
         [] addr = UART_FCR -> [m EXCEPT !.u.FCR = x]
         [] addr = UART_LCR -> [m EXCEPT !.u.LCR = x]
         [] addr = UART_MCR -> [m EXCEPT !.u.MCR = x]
         [] OTHER -> Abort(m).m

\* ------------------------------------------------------------ state
VARIABLES
  cb,         \* test(): the RingBuffer under test
  array,      \* test(): the reference JavaScript Array
  operation,  \* test(): the operation of the last iteration (-1: none yet)
  got,        \* test(): what the RingBuffer returned
  expected,   \* test(): what the reference Array returned
  uart,       \* the UARTDev object
  op,         \* the last operation on the port: its name, arguments, result
  calls,      \* the calls that operation made, in order
  intline,    \* the interrupt line at intdev: "raise"/"clear", the last call
  nrecv,      \* how many bytes ReceiveChar has been handed
  refq,       \* reference FIFO: the bytes received and not yet read, oldest first
  oldest      \* what the reference FIFO says the last operation returns

rbvars == <<cb, array, operation, got, expected>>
uartvars == <<uart, op, calls, intline, nrecv, refq, oldest>>
vars == <<cb, array, operation, got, expected,
          uart, op, calls, intline, nrecv, refq, oldest>>

\* ------------------------------------------------------------ test()
\* The reference Array's own operations.
ArrayUnshift(a, v) == [a |-> <<v>> \o a, ret |-> <<Len(a) + 1>>]
ArrayPush(a, v) == [a |-> Append(a, v), ret |-> <<Len(a) + 1>>]
ArrayPop(a) ==
  IF Len(a) = 0 THEN [a |-> a, ret |-> undefined]
  ELSE [a |-> SubSeq(a, 1, Len(a) - 1), ret |-> <<a[Len(a)]>>]
ArrayShift(a) ==
  IF Len(a) = 0 THEN [a |-> a, ret |-> undefined]
  ELSE [a |-> Tail(a), ret |-> <<Head(a)>>]

\* Signed distance of begin from slot 0.
Off(rb) == IF 2 * rb.begin <= Len(rb.array) THEN rb.begin ELSE rb.begin - Len(rb.array)

Succ(v) == (v % NumVals) + 1
Pred(v) == ((v + NumVals - 2) % NumVals) + 1

\* The harness stores val = i, the iteration number.  Here the stored values
\* are kept to 1..NumVals and chosen so that the queue's contents are always
\* a cyclic run ..., k, k+1, k+2, ...: any loss, duplication or reordering
\* breaks the run.  An empty queue may start the run anywhere.
BackVals == IF Len(array) = 0 THEN 1..NumVals ELSE {Succ(array[Len(array)])}
FrontVals == IF Len(array) = 0 THEN 1..NumVals ELSE {Pred(array[1])}

WouldShrink(rb) == _check_shrink(rb)._shrink_count # rb._shrink_count

TestUnshift ==
  /\ cb.length < MaxLen
  /\ Off(cb) > -MaxOff
  /\ \E val \in FrontVals :
       LET r == unshift(cb, val)
           e == ArrayUnshift(array, val)
       IN /\ cb' = r.rb /\ got' = r.ret
          /\ array' = e.a /\ expected' = e.ret
  /\ operation' = 0
  /\ UNCHANGED uartvars

TestPush ==
  /\ cb.length < MaxLen
  /\ \E val \in BackVals :
       LET r == push(cb, val)
           e == ArrayPush(array, val)
       IN /\ cb' = r.rb /\ got' = r.ret
          /\ array' = e.a /\ expected' = e.ret
  /\ operation' = 1
  /\ UNCHANGED uartvars

TestPop ==
  /\ WouldShrink(cb) => cb._shrink_count < MaxShrinks
  /\ LET r == pop(cb)
         e == ArrayPop(array)
     IN /\ cb' = r.rb /\ got' = r.ret
        /\ array' = e.a /\ expected' = e.ret
  /\ operation' = 2
  /\ UNCHANGED uartvars

TestShift ==
  /\ WouldShrink(cb) => cb._shrink_count < MaxShrinks
  /\ Off(cb) < MaxOff
  /\ LET r == shift(cb)
         e == ArrayShift(array)
     IN /\ cb' = r.rb /\ got' = r.ret
        /\ array' = e.a /\ expected' = e.ret
  /\ operation' = 3
  /\ UNCHANGED uartvars

\* The harness reads index i % array.length; the indices read here are both
\* ends and the middle of the queue.
GetIndices == {0, Len(array) \div 2, Len(array) - 1}

TestGet ==
  /\ Len(array) > 0
  /\ \E i \in GetIndices :
       /\ got' = <<get(cb, i)>>
       /\ expected' = <<array[i + 1]>>
  /\ operation' = 4
  /\ UNCHANGED <<cb, array>>
  /\ UNCHANGED uartvars

\* ------------------------------------------------------------ the port
\* Bytes the serial line delivers.
RxBytes == {65, 66}
\* Register addresses the bus reads.
ReadAddrs == 0..7
\* Register writes the bus makes: <<address, value>>.  322 = 0x142 and
\* 243 = 0xF3 have bits the port must mask off; 131 = 0x83 sets DLAB.
WriteInputs ==
  { <<0, 322>>, <<1, 0>>, <<1, 2>>, <<1, 243>>, <<2, 2>>,
    <<3, 3>>, <<3, 131>>, <<4, 11>>, <<5, 1>>, <<6, 1>>, <<7, 1>> }

\* The level of the interrupt line after the calls of an operation.
RECURSIVE LineAfter(_, _)
LineAfter(level, cs) ==
  IF cs = <<>> THEN level
  ELSE LineAfter(IF Head(cs).fn = "intdev.RaiseInterrupt" THEN "raise"
                 ELSE IF Head(cs).fn = "intdev.ClearInterrupt" THEN "clear"
                 ELSE level,
                 Tail(cs))

Start == [u |-> uart, calls |-> <<>>]

Finish(m) ==
  /\ uart' = m.u
  /\ calls' = m.calls
  /\ intline' = LineAfter(intline, m.calls)

\* The operation before this one, as far as a read of the receive buffer
\* needs it: its name and, for ReceiveChar, its byte.
Before == [name |-> op.name, x |-> op.x]
NoBefore == [name |-> "", x |-> -1]

\* What a read of address 0 with DLAB clear returns by the reference FIFO:
\* its oldest byte, or the idle value 0x21 when it is empty.
RefRead(q) == IF q = <<>> THEN <<33>> ELSE <<Head(q)>>
RefRest(q) == IF q = <<>> THEN q ELSE Tail(q)

DoReceiveChar ==
  /\ nrecv < MaxRecv
  /\ \E x \in RxBytes :
       /\ Finish(ReceiveChar(Start, x))
       /\ op' = [name |-> "ReceiveChar", addr |-> -1, x |-> x, ret |-> undefined,
                 after |-> NoBefore]
       /\ refq' = Append(refq, x)
  /\ nrecv' = nrecv + 1
  /\ oldest' = undefined
  /\ UNCHANGED rbvars

DoReadReg8 ==
  /\ \E addr \in ReadAddrs :
       LET r == ReadReg8(Start, addr)
           rbr == addr = 0 /\ ~Dlab(uart)
       IN
       /\ Finish(r.m)
       /\ op' = [name |-> "ReadReg8", addr |-> addr, x |-> -1, ret |-> r.ret,
                 after |-> IF rbr THEN Before ELSE NoBefore]
       /\ oldest' = IF rbr THEN RefRead(refq) ELSE undefined
       /\ refq' = IF rbr THEN RefRest(refq) ELSE refq
  /\ UNCHANGED nrecv
  /\ UNCHANGED rbvars

DoWriteReg8 ==
  /\ \E w \in WriteInputs :
       /\ Finish(WriteReg8(Start, w[1], w[2]))
       /\ op' = [name |-> "WriteReg8", addr |-> w[1], x |-> w[2], ret |-> undefined,
                 after |-> NoBefore]
  /\ oldest' = undefined
  /\ UNCHANGED <<nrecv, refq>>
  /\ UNCHANGED rbvars

DoReset ==
  /\ uart' = Reset(uart)
  /\ op' = [name |-> "Reset", addr |-> -1, x |-> -1, ret |-> undefined,
            after |-> NoBefore]
  /\ calls' = <<>>
  /\ oldest' = undefined
  /\ UNCHANGED <<intline, nrecv, refq>>
  /\ UNCHANGED rbvars

Init ==
  /\ cb = RingBufferNew
  /\ array = <<>>
  /\ operation = -1
  /\ got = undefined
  /\ expected = undefined
  /\ uart = UARTDevNew
  /\ op = [name |-> "new", addr |-> -1, x |-> -1, ret |-> undefined,
           after |-> [name |-> "", x |-> -1]]
  /\ calls = <<>>
  /\ intline = "clear"
  /\ nrecv = 0
  /\ refq = <<>>
  /\ oldest = undefined

NextRB == TestUnshift \/ TestPush \/ TestPop \/ TestShift \/ TestGet

SpecRB == Init /\ [][NextRB]_vars

Next == DoReceiveChar \/ DoReadReg8 \/ DoWriteReg8 \/ DoReset

Spec == Init /\ [][Next]_vars

\* The port driven by ReceiveChar, ReadReg8 and WriteReg8 only: Reset is
\* called by the constructor and never again.
NextNoReset == DoReceiveChar \/ DoReadReg8 \/ DoWriteReg8

SpecNoReset == Init /\ [][NextNoReset]_vars

\* ------------------------------------------------------------ claims
\* The queue's elements in logical order, read through get.
Contents(rb) == [i \in 1..rb.length |-> get(rb, i - 1)]

Has(cs, f) == \E k \in 1..Len(cs) : cs[k].fn = f
Count(cs, f) == Cardinality({k \in 1..Len(cs) : cs[k].fn = f})

DataReady(u) == BitAnd(u.LSR, UART_LSR_DATA_READY) # 0
Pending(u, cause) == BitAnd(u.ints, Shl1(cause)) # 0
RdiEnabled(u) == BitAnd(u.IER, UART_IER_RDI) # 0

\* C1: after every operation of the harness the RingBuffer returned what the
\* reference Array returned, has the Array's length, and get(i) is the
\* Array's element i for every 0 <= i < length.
C1_RefinesDeque ==
  /\ got = expected
  /\ cb.length = Len(array)
  /\ \A i \in 0..(cb.length - 1) : get(cb, i) = array[i + 1]

\* C1 witness: a pop or shift has just shrunk the queue from capacity 512 to
\* 128 and returned the reference's element.
C1_Witness ==
  /\ operation \in {2, 3}
  /\ cb._shrink_count = 1
  /\ Len(cb.array) = cb.min_capacity
  /\ cb.length = (cb.min_capacity \div 2) - 1
  /\ got # undefined
  /\ got = expected

\* C2: the receive fifo always holds exactly the bytes received and not yet
\* read, oldest first, and a read of address 0 with DLAB clear returns the
\* oldest of them.
C2_FifoOrder ==
  /\ Contents(uart.fifo) = refq
  /\ oldest # undefined => op.ret = oldest

\* C2 witness: with FCR bit 1 written, the first of two queued bytes has been
\* read and the second is still queued.
C2_Witness ==
  /\ op.name = "ReadReg8" /\ op.addr = 0 /\ oldest # undefined
  /\ op.ret = oldest
  /\ op.ret[1] \in RxBytes
  /\ refq # <<>>
  /\ BitAnd(uart.FCR, 2) # 0

\* C3: every ClearInterrupt(cause) removes cause from ints, sets IIR to
\* no-interrupt, and goes on to NextInterrupt exactly when cause is the value
\* IIR held on entry.
C3_AckRearbitrates ==
  \A k \in 1..Len(calls) :
    calls[k].fn = "ClearInterrupt" =>
      /\ BitAnd(calls[k].ints, Shl1(calls[k].line)) = 0
      /\ calls[k].IIR = UART_IIR_NO_INT
      /\ (k < Len(calls) /\ calls[k + 1].fn = "NextInterrupt")
           <=> (calls[k].line = calls[k].before)

\* A read of address 0 with DLAB clear that found at least two bytes queued.
ReadWithMoreQueued == oldest # undefined /\ uart.fifo.length >= 1

\* C4 as stated: such a read returns the oldest byte, leaves Data-Ready set
\* and raises the interrupt again.
C4_SecondByteRaises ==
  ReadWithMoreQueued =>
    /\ op.ret = oldest
    /\ DataReady(uart)
    /\ Has(calls, "intdev.RaiseInterrupt")

\* C4 amended: such a read returns the oldest byte and leaves Data-Ready set;
\* it raises the interrupt again exactly when IER enables the receive-data
\* interrupt.
C4_SecondByteRaisesIfEnabled ==
  ReadWithMoreQueued =>
    /\ op.ret = oldest
    /\ DataReady(uart)
    /\ Has(calls, "intdev.RaiseInterrupt") <=> RdiEnabled(uart)

\* C4 witness: the read left a byte queued and raised the interrupt again.
C4_Witness ==
  /\ ReadWithMoreQueued
  /\ RdiEnabled(uart)
  /\ Has(calls, "intdev.RaiseInterrupt")
  /\ uart.IIR = UART_IIR_CTI

\* C5: a byte received into an empty fifo with DLAB clear sets Data-Ready, and
\* the read of address 0 that follows returns that byte and clears
\* Data-Ready.
C5_ReceiveThenRead ==
  /\ (op.name = "ReceiveChar" /\ uart.fifo.length = 1 /\ ~Dlab(uart))
       => DataReady(uart)
  /\ (oldest # undefined /\ op.after.name = "ReceiveChar" /\ uart.fifo.length = 0)
       => (op.ret = <<op.after.x>> /\ ~DataReady(uart))

\* C5 witness: the read that followed the receive has returned the byte.
C5_Witness ==
  /\ oldest # undefined
  /\ op.after.name = "ReceiveChar"
  /\ uart.fifo.length = 0
  /\ op.ret = <<op.after.x>>

\* C6: with IER bit 0 clear, ReceiveChar does not raise the interrupt and
\* leaves IIR as it was, and still appends the byte to the fifo, sets
\* Data-Ready and marks Character-Timeout pending.
C6_MaskedReceive ==
  [][ (op'.name = "ReceiveChar" /\ ~RdiEnabled(uart)) =>
        /\ ~Has(calls', "intdev.RaiseInterrupt")
        /\ uart'.IIR = uart.IIR
        /\ Contents(uart'.fifo) = Append(Contents(uart.fifo), op'.x)
        /\ DataReady(uart')
        /\ Pending(uart', UART_IIR_CTI) ]_vars

\* C6 witness: a byte was received while only the transmit interrupt was
\* enabled and reported.
C6_Witness ==
  /\ op.name = "ReceiveChar"
  /\ ~RdiEnabled(uart)
  /\ uart.IIR = UART_IIR_THRI
  /\ Pending(uart, UART_IIR_CTI)
  /\ calls = <<>>

\* C7: with DLAB clear, a write of B to address 0 calls PutChar once, with
\* B mod 256, makes no other call to the output device, leaves FIFO-Empty set
\* in LSR, marks Transmit-Holding-Empty pending and leaves the fifo alone.
C7_Transmit ==
  [][ (op'.name = "WriteReg8" /\ op'.addr = 0 /\ ~Dlab(uart)) =>
        /\ Count(calls', "odev.PutChar") = 1
        /\ \A k \in 1..Len(calls') :
             calls'[k].fn = "odev.PutChar" => calls'[k].arg = op'.x % 256
        /\ BitAnd(uart'.LSR, UART_LSR_FIFO_EMPTY) # 0
        /\ Pending(uart', UART_IIR_THRI)
        /\ uart'.fifo = uart.fifo ]_vars

\* C7 witness: 0x142 was written to address 0 and 0x42 reached the output
\* device, with a byte waiting in the fifo.
C7_Witness ==
  /\ op.name = "WriteReg8" /\ op.addr = 0 /\ op.x > 255
  /\ ~Dlab(uart)
  /\ calls[1] = [fn |-> "odev.PutChar", arg |-> op.x - 256]
  /\ uart.fifo.length > 0

\* C8: while DLAB is set, a write to address 0 (1) changes DLL (DLH) and
\* nothing else and calls nothing; a read of address 0 (1) returns DLL (DLH),
\* changes nothing and calls nothing.
C8_DivisorLatch ==
  [][ Dlab(uart) =>
        /\ (op'.name = "WriteReg8" /\ op'.addr = 0) =>
             (uart' = [uart EXCEPT !.DLL = op'.x % 256]
              /\ calls' = <<>> /\ intline' = intline)
        /\ (op'.name = "WriteReg8" /\ op'.addr = 1) =>
             (uart' = [uart EXCEPT !.DLH = op'.x % 256]
              /\ calls' = <<>> /\ intline' = intline)
        /\ (op'.name = "ReadReg8" /\ op'.addr = 0) =>
             (op'.ret = <<uart.DLL>> /\ uart' = uart
              /\ calls' = <<>> /\ intline' = intline)
        /\ (op'.name = "ReadReg8" /\ op'.addr = 1) =>
             (op'.ret = <<uart.DLH>> /\ uart' = uart
              /\ calls' = <<>> /\ intline' = intline) ]_vars

\* C8 witness: with DLAB set, a byte queued and Character-Timeout reported, a
\* read of address 0 returned the DLL written before.
C8_Witness ==
  /\ op.name = "ReadReg8" /\ op.addr = 0
  /\ Dlab(uart)
  /\ uart.DLL # 0
  /\ op.ret = <<uart.DLL>>
  /\ uart.fifo.length > 0
  /\ uart.IIR = UART_IIR_CTI

\* C9: a read of address 2 returns (IIR & 0x0F) | 0xC0 of the IIR before the
\* read.  If that IIR was Transmit-Holding-Empty the cause is no longer
\* pending afterwards, and NextInterrupt run on the state after the read
\* sets IIR to no-interrupt and calls the sink's clear unless
\* Character-Timeout is both pending and enabled.  Otherwise the read changes
\* nothing.
C9_ReadIIR ==
  [][ (op'.name = "ReadReg8" /\ op'.addr = 2) =>
        /\ op'.ret = <<(uart.IIR % 16) + 192>>
        /\ IF uart.IIR = UART_IIR_THRI
           THEN /\ ~Pending(uart', UART_IIR_THRI)
                /\ LET n == NextInterrupt([u |-> uart', calls |-> <<>>]) IN
                   ~(Pending(uart', UART_IIR_CTI) /\ RdiEnabled(uart')) =>
                     /\ n.u.IIR = UART_IIR_NO_INT
                     /\ Has(n.calls, "intdev.ClearInterrupt")
           ELSE /\ uart' = uart
                /\ calls' = <<>>
                /\ intline' = intline ]_vars

\* C9 witness: address 2 was read while IIR reported Transmit-Holding-Empty.
C9_Witness ==
  /\ op.name = "ReadReg8" /\ op.addr = 2
  /\ op.ret = <<UART_IIR_THRI + 192>>
  /\ ~Pending(uart, UART_IIR_THRI)
  /\ Has(calls, "ClearInterrupt")

ReadSupported == {0, 1, 2, 3, 5, 6}
WriteSupported == {0, 1, 2, 3, 4}
OnlyAbort == << [fn |-> "abort"] >>

\* C10: a read or write of an unsupported address calls abort and nothing
\* else, returns nothing and changes nothing; a read or write of a supported
\* address does not call abort.
C10_Unsupported ==
  [][ /\ (op'.name = "ReadReg8" /\ op'.addr \notin ReadSupported) =>
           (calls' = OnlyAbort /\ op'.ret = undefined
            /\ uart' = uart /\ intline' = intline)
      /\ (op'.name = "WriteReg8" /\ op'.addr \notin WriteSupported) =>
           (calls' = OnlyAbort /\ uart' = uart /\ intline' = intline)
      /\ (op'.name = "ReadReg8" /\ op'.addr \in ReadSupported) =>
           (~Has(calls', "abort") /\ op'.ret # undefined)
      /\ (op'.name = "WriteReg8" /\ op'.addr \in WriteSupported) =>
           ~Has(calls', "abort") ]_vars

\* C10 witness: address 4, written before, was read and the read aborted.
C10_Witness ==
  /\ op.name = "ReadReg8" /\ op.addr = 4
  /\ calls = OnlyAbort
  /\ uart.MCR # 0
  /\ uart.fifo.length > 0

\* ------------------------------------------------------------ claims C11..
Cap(rb) == Len(rb.array)
IsPow2(n) == \E k \in 0..12 : n = 2 ^ k

\* A step of the harness that doubled, or quartered, the capacity.
GrowStep == Cap(cb') > Cap(cb)
ShrinkStep == Cap(cb') < Cap(cb)

\* C11: the capacity is always a power of two and at least the length; a
\* step changes it only by doubling, on a push or unshift that found the
\* queue full, or by quartering, on a shrink, after which it is at least
\* min_capacity and at least twice the length the shrink found.
C11_Capacity ==
  /\ [](IsPow2(Cap(cb)) /\ cb.length <= Cap(cb))
  /\ [][ /\ GrowStep =>
              /\ Cap(cb') = 2 * Cap(cb)
              /\ operation' \in {0, 1}
              /\ cb.length = Cap(cb)
         /\ ShrinkStep =>
              /\ 4 * Cap(cb') = Cap(cb)
              /\ cb'._shrink_count = cb._shrink_count + 1
              /\ Cap(cb') >= cb.min_capacity
              /\ 2 * cb.length <= Cap(cb') ]_vars

\* C11 witness: the queue has shrunk to min_capacity and then doubled again.
C11_Witness ==
  /\ cb._shrink_count = 1
  /\ Cap(cb) = 2 * cb.min_capacity
  /\ cb.length = cb.min_capacity + 1
  /\ operation \in {0, 1}

\* Slot k (0-based) holds one of the length live elements.
Live(rb, k) == ((k + Cap(rb) - rb.begin) % Cap(rb)) < rb.length

\* C12: every slot that holds no live element holds empty_value (stated as
\* its contrapositive: a slot holding another value holds a live element).
C12_VacatedSlots ==
  \A k \in 0..(Cap(cb) - 1) : cb.array[k + 1] # cb.empty_value => Live(cb, k)

\* C12 witness: a pop has just shrunk the queue and the slot at end, which
\* held the removed element, holds empty_value.
C12_Witness ==
  /\ operation = 2
  /\ got # undefined /\ got[1] # cb.empty_value
  /\ cb._shrink_count = 1
  /\ Cap(cb) = cb.min_capacity
  /\ cb.length = (cb.min_capacity \div 2) - 1
  /\ cb.array[cb.end + 1] = cb.empty_value

\* C13: length, begin and end stay within the capacity and
\* end = (begin + length) mod capacity; a step that reallocated leaves begin
\* and end where begin = 0 and end = length, followed by the operation's own
\* move, put them.
C13_Indices ==
  /\ [](/\ 0 <= cb.length /\ cb.length <= Cap(cb)
        /\ 0 <= cb.begin /\ cb.begin < Cap(cb)
        /\ 0 <= cb.end /\ cb.end < Cap(cb)
        /\ cb.end = (cb.begin + cb.length) % Cap(cb))
  /\ [][ (GrowStep \/ ShrinkStep) =>
           /\ operation' = 0 => (cb'.begin = Cap(cb') - 1 /\ cb'.end = cb.length)
           /\ operation' = 1 => (cb'.begin = 0 /\ cb'.end = cb.length + 1)
           /\ operation' = 2 => (cb'.begin = 0 /\ cb'.end = cb.length - 1)
           /\ operation' = 3 => (cb'.begin = 1 /\ cb'.end = cb.length) ]_vars

\* C13 witness: an unshift found the queue full with begin away from slot 0,
\* and doubled it.
C13_Witness ==
  /\ operation = 0
  /\ Cap(cb) = 32
  /\ cb.length = 17
  /\ cb.begin = Cap(cb) - 1
  /\ cb.end = 16

\* C14: pop and shift on an empty queue return undefined and leave the queue
\* (begin, end, length, storage, shrink count) exactly as it was.
C14_EmptyRemoval ==
  [][ (operation' \in {2, 3} /\ cb.length = 0) =>
        (got' = undefined /\ cb' = cb) ]_vars

\* C14 witness: a shift on an empty queue whose begin is away from slot 0
\* returned undefined.
C14_Witness ==
  /\ operation = 3
  /\ got = undefined
  /\ cb.length = 0
  /\ cb.begin # 0

\* The next push or unshift (full queue), or the next pop or shift, would
\* reallocate.
WouldRealloc(rb) ==
  \/ rb.length = Cap(rb)
  \/ rb.length > 0 /\ WouldShrink(rb)

\* C18: after a step that reallocated, no operation reallocates; a shrink
\* happens only on a pop or shift that finds length <= capacity/8 and
\* capacity/4 >= min_capacity; a shrink to capacity c leaves at least c/2
\* slots free, a growth happens only when no slot is free, and a step adds
\* at most one element.
C18_NoThrash ==
  [][ /\ (GrowStep \/ ShrinkStep) => ~WouldRealloc(cb')
      /\ ShrinkStep =>
           /\ operation' \in {2, 3}
           /\ 8 * cb.length <= Cap(cb)
           /\ Cap(cb) \div 4 >= cb.min_capacity
           /\ 2 * (Cap(cb') - cb'.length) >= Cap(cb')
      /\ GrowStep => cb.length = Cap(cb)
      /\ cb'.length <= cb.length + 1 ]_vars

\* C18 witness: a shift has just shrunk the queue.
C18_Witness ==
  /\ operation = 3
  /\ got # undefined
  /\ cb._shrink_count = 1
  /\ Cap(cb) = cb.min_capacity
  /\ cb.begin = 1
  /\ 8 * (cb.length + 1) = 4 * Cap(cb)

\* ------------------------------------------------------------ claims C15..
ThriEnabled(u) == BitAnd(u.IER, UART_IER_THRI) # 0
Raised(cs) == Has(cs, "intdev.RaiseInterrupt")
Cleared(cs) == Has(cs, "intdev.ClearInterrupt")

\* C15: after a write to IER (address 1, DLAB clear) IER holds the low four
\* bits of the value, and IIR reports the highest-priority cause both pending
\* and enabled in the new IER (CTI before THRI) with the sink's raise
\* invoked, or no-interrupt with the sink's clear invoked when there is none.
C15_IerWrite ==
  (op.name = "WriteReg8" /\ op.addr = UART_IER /\ ~Dlab(uart)) =>
    /\ uart.IER = (op.x % 256) % 16
    /\ IF Pending(uart, UART_IIR_CTI) /\ RdiEnabled(uart)
       THEN uart.IIR = UART_IIR_CTI /\ Raised(calls)
       ELSE IF Pending(uart, UART_IIR_THRI) /\ ThriEnabled(uart)
       THEN uart.IIR = UART_IIR_THRI /\ Raised(calls)
       ELSE uart.IIR = UART_IIR_NO_INT /\ Cleared(calls)

\* C16: a transmit write made while IIR reports CTI marks THRI pending,
\* leaves IIR at CTI and does not raise; a ReceiveChar made while IIR reports
\* THRI or no-interrupt, with the receive-data enable set, sets IIR to CTI
\* and raises.
C16_Priority ==
  [][ /\ (/\ op'.name = "WriteReg8" /\ op'.addr = 0 /\ ~Dlab(uart)
          /\ uart.IIR = UART_IIR_CTI) =>
            /\ Pending(uart', UART_IIR_THRI)
            /\ uart'.IIR = UART_IIR_CTI
            /\ ~Raised(calls')
      /\ (/\ op'.name = "ReceiveChar"
          /\ uart.IIR \in {UART_IIR_THRI, UART_IIR_NO_INT}
          /\ RdiEnabled(uart)) =>
            /\ uart'.IIR = UART_IIR_CTI
            /\ Raised(calls') ]_vars

\* C16 witness: a transmit write with THRI enabled has just been made while
\* IIR reports CTI.
C16_Witness ==
  /\ op.name = "WriteReg8" /\ op.addr = 0 /\ ~Dlab(uart)
  /\ uart.IIR = UART_IIR_CTI
  /\ ThriEnabled(uart)
  /\ Pending(uart, UART_IIR_THRI)
  /\ Has(calls, "odev.PutChar")
  /\ ~Raised(calls)

\* C17: Reset sets LCR = 0x03, LSR = 0x60, MSR = 0, IIR = no-interrupt,
\* ints = 0, IER = 0, DLL = 0, DLH = 0, FCR = 0 and MCR = 0, leaves the
\* receive fifo as it was and calls neither sink; the read of address 0 that
\* follows returns the oldest byte queued before the Reset.
C17_Reset ==
  [][ op'.name = "Reset" =>
        /\ uart'.LCR = 3 /\ uart'.LSR = 96 /\ uart'.MSR = 0
        /\ uart'.IIR = UART_IIR_NO_INT /\ uart'.ints = 0 /\ uart'.IER = 0
        /\ uart'.DLL = 0 /\ uart'.DLH = 0 /\ uart'.FCR = 0 /\ uart'.MCR = 0
        /\ uart'.fifo = uart.fifo
        /\ calls' = <<>> /\ intline' = intline
        /\ Contents(uart'.fifo) = refq
        /\ ReadReg8([u |-> uart', calls |-> <<>>], 0).ret = RefRead(refq) ]_vars

\* C17 witness: the read of address 0 right after a Reset returned a byte
\* that was queued before the Reset.
C17_Witness ==
  /\ op.name = "ReadReg8" /\ op.addr = 0
  /\ op.after.name = "Reset"
  /\ op.ret = <<65>>
  /\ oldest = <<65>>
  /\ uart.fifo.length = 1

\* C19: between operations LSR's Data-Ready bit is set exactly when the
\* receive fifo is non-empty.
C19_DataReadyIffQueued == DataReady(uart) <=> uart.fifo.length > 0

\* C20: the interrupt line at the sink is asserted exactly when IIR reports
\* a cause other than no-interrupt.
C20_LineIffCause == (intline = "raise") <=> (uart.IIR # UART_IIR_NO_INT)

\* ------------------------------------------------------------ claim C21
\* C21: without Reset, whenever the receive fifo is non-empty and IER's
\* receive-data enable is set, CTI is pending in ints, IIR reports CTI and
\* the most recent call of the interrupt sink is a raise.
C21_QueuedByteSignalled ==
  (uart.fifo.length > 0 /\ RdiEnabled(uart)) =>
    /\ Pending(uart, UART_IIR_CTI)
    /\ uart.IIR = UART_IIR_CTI
    /\ intline = "raise"

\* C21 witness: a read of address 0 took the older of two bytes while the
\* receive-data and THRI enables are set and THRI is pending too; a byte is
\* still queued.
C21_Witness ==
  /\ op.name = "ReadReg8" /\ op.addr = 0 /\ op.ret = oldest
  /\ op.after.name = "WriteReg8"
  /\ uart.fifo.length = 1
  /\ RdiEnabled(uart) /\ ThriEnabled(uart)
  /\ Pending(uart, UART_IIR_THRI)
  /\ Pending(uart, UART_IIR_CTI)
  /\ uart.IIR = UART_IIR_CTI
  /\ intline = "raise"

====
